---- MODULE Spec2Model ----
(***************************************************************************)
(* Model of the openai-rust chat-completion client: the ChatCompletion     *)
(* request builder (src/openai/chat/chat_completion.rs), the URI resolver  *)
(* of Client (src/openai/client.rs) and the dispatcher Requestor::post     *)
(* (src/openai/requestor.rs).                                              *)
(***************************************************************************)
EXTENDS Integers, Sequences, FiniteSets, TLC

(***************************************************************************)
(* Bounds of the model.                                                    *)
(***************************************************************************)
\* longest message list the model builds
MaxMsgs == 2
\* longest stop list handed to stop()
MaxStopLen == 5
\* longest functions list handed to functions()
MaxFuncs == 2

(***************************************************************************)
(* Option<T>: None is the empty tuple, Some(v) the one-element tuple.      *)
(***************************************************************************)
None == <<>>
Some(v) == <<v>>
IsNone(o) == o = <<>>
IsSome(o) == o # <<>>
Unwrap(o) == o[1]

(***************************************************************************)
(* f32.  A value is finite (t is the value in tenths), NaN or +/-infinity. *)
(* Comparisons are the IEEE-754 ones Rust's < and > perform on f32: every  *)
(* comparison with NaN is false.                                           *)
(***************************************************************************)
Fin(t) == [cls |-> "fin", t |-> t]
NaN == [cls |-> "nan", t |-> 0]
PInf == [cls |-> "pinf", t |-> 0]
NInf == [cls |-> "ninf", t |-> 0]

F32Lt(a, b) ==
  CASE a.cls = "nan" \/ b.cls = "nan" -> FALSE
    [] a.cls = "ninf" -> b.cls # "ninf"
    [] a.cls = "pinf" -> FALSE
    [] b.cls = "ninf" -> FALSE
    [] b.cls = "pinf" -> TRUE
    [] OTHER -> a.t < b.t

F32Gt(a, b) == F32Lt(b, a)

\* the f32 arguments the setters are called with: both sides of every
\* range bound, the bounds themselves, NaN and the infinities
F32Args == {Fin(t) : t \in {-21, -20, -1, 0, 10, 11, 20, 21}} \cup {NaN, PInf, NInf}

(***************************************************************************)
(* ChatCompletionError                                                     *)
(***************************************************************************)
\* the error of a call: None, or Some(e) where e names the variant and, in a
\* field named after its type, the value the variant carries
NoErr == None
ErrUnit(variant) == Some([variant |-> variant])
ErrF32(variant, v) == Some([variant |-> variant, f32 |-> v])
ErrUsize(variant, n) == Some([variant |-> variant, usize |-> n])
ErrKind(variant, kind) == Some([variant |-> variant, kind |-> kind])
NoArgs == [none |-> TRUE]

(***************************************************************************)
(* ChatCompletion                                                          *)
(***************************************************************************)
ChatCompletionNew ==
  [model |-> None, messages |-> <<>>, temperature |-> None, top_p |-> None,
   n |-> None, stream |-> None, stop |-> None, max_tokens |-> None,
   presence_penalty |-> None, frequency_penalty |-> None, logit_bias |-> None,
   user |-> None, function_call |-> None, functions |-> None]

\* builder: the ChatCompletion value the caller owns; None once a consuming
\*          setter returned Err (the value was moved into the call and dropped)
\* res:     the last call: its name, argument, outcome and the HTTP requests it sent
\* openai_client:   the Client the program shares by reference (&self calls);
\*                  None until Client::new has run
\* tasks:           the calls in flight on openai_client, one per task
\* message_builder: the ChatMessageBuilder value the caller owns; None once
\*                  build() consumed it
VARIABLES builder, res, openai_client, tasks, message_builder
vars == <<builder, res, openai_client, tasks, message_builder>>

\* what the operations of the request builder leave alone
client_side == <<openai_client, tasks, message_builder>>

cc == Unwrap(builder)

Result(op, arg, ok, err) ==
  [op |-> op, arg |-> arg, ok |-> ok, err |-> err, val |-> None, sent |-> <<>>]

Init ==
  /\ builder = Some(ChatCompletionNew)
  /\ res = Result("new", NoArgs, TRUE, NoErr)
  /\ openai_client = None
  /\ tasks = <<>>
  /\ message_builder = None

New ==
  /\ UNCHANGED client_side
  /\ builder' = Some(ChatCompletionNew)
  /\ res' = Result("new", NoArgs, TRUE, NoErr)

(***************************************************************************)
(* The range-checked f32 setters.                                          *)
(***************************************************************************)
TemperatureRejects(temperature) ==
  F32Lt(temperature, Fin(0)) \/ F32Gt(temperature, Fin(20))

Temperature(temperature) ==
  /\ UNCHANGED client_side
  /\ IsSome(builder)
  /\ IF TemperatureRejects(temperature)
     THEN /\ builder' = None
          /\ res' = Result("temperature", [temperature |-> temperature], FALSE,
                           ErrF32("TemperatureValueOutOfRange", temperature))
     ELSE /\ builder' = Some([cc EXCEPT !.temperature = Some(temperature)])
          /\ res' = Result("temperature", [temperature |-> temperature], TRUE, NoErr)

TopPRejects(top_p) ==
  F32Lt(top_p, Fin(0)) \/ F32Gt(top_p, Fin(10))

TopP(top_p) ==
  /\ UNCHANGED client_side
  /\ IsSome(builder)
  /\ IF TopPRejects(top_p)
     THEN /\ builder' = None
          /\ res' = Result("top_p", [top_p |-> top_p], FALSE,
                           ErrF32("TopPValueOutOfRange", top_p))
     ELSE /\ builder' = Some([cc EXCEPT !.top_p = Some(top_p)])
          /\ res' = Result("top_p", [top_p |-> top_p], TRUE, NoErr)

PresencePenaltyRejects(presence_penalty) ==
  F32Lt(presence_penalty, Fin(-20)) \/ F32Gt(presence_penalty, Fin(20))

PresencePenalty(presence_penalty) ==
  /\ UNCHANGED client_side
  /\ IsSome(builder)
  /\ IF PresencePenaltyRejects(presence_penalty)
     THEN /\ builder' = None
          /\ res' = Result("presence_penalty", [presence_penalty |-> presence_penalty], FALSE,
                           ErrF32("PresencePenaltyValueOutOfRange", presence_penalty))
     ELSE /\ builder' = Some([cc EXCEPT !.presence_penalty = Some(presence_penalty)])
          /\ res' = Result("presence_penalty", [presence_penalty |-> presence_penalty], TRUE, NoErr)

FrequencyPenaltyRejects(frequency_penalty) ==
  F32Lt(frequency_penalty, Fin(-20)) \/ F32Gt(frequency_penalty, Fin(20))

FrequencyPenalty(frequency_penalty) ==
  /\ UNCHANGED client_side
  /\ IsSome(builder)
  /\ IF FrequencyPenaltyRejects(frequency_penalty)
     THEN /\ builder' = None
          /\ res' = Result("frequency_penalty", [frequency_penalty |-> frequency_penalty], FALSE,
                           ErrF32("FrequencyPenaltyValueOutOfRange", frequency_penalty))
     ELSE /\ builder' = Some([cc EXCEPT !.frequency_penalty = Some(frequency_penalty)])
          /\ res' = Result("frequency_penalty", [frequency_penalty |-> frequency_penalty], TRUE, NoErr)

NextNum ==
  \/ New
  \/ \E v \in F32Args : Temperature(v)
  \/ \E v \in F32Args : TopP(v)
  \/ \E v \in F32Args : PresencePenalty(v)
  \/ \E v \in F32Args : FrequencyPenalty(v)

SpecNum == Init /\ [][NextNum]_vars

(***************************************************************************)
(* stop and the unconditional setters n, stream, max_tokens.               *)
(***************************************************************************)
\* the stop sequences put in the lists handed to stop()
StopStrings == {"\n", "END"}

RECURSIVE SeqsUpTo(_, _)
\* all sequences over S of length 0..n
SeqsUpTo(S, n) ==
  IF n = 0 THEN {<<>>}
  ELSE LET shorter == SeqsUpTo(S, n - 1)
       IN  shorter \cup {Append(q, x) : q \in {r \in shorter : Len(r) = n - 1}, x \in S}

StopArgs == SeqsUpTo(StopStrings, MaxStopLen)

\* faulty variant: the limit is off by one and a list of 4 is refused
StopRejects_AtFour(stop) == Len(stop) >= 4

StopRejects(stop) == Len(stop) > 4

Stop(stop) ==
  /\ UNCHANGED client_side
  /\ IsSome(builder)
  /\ IF Len(stop) = 0
     THEN /\ builder' = Some([cc EXCEPT !.stop = None])
          /\ res' = Result("stop", [stop |-> stop], TRUE, NoErr)
     ELSE IF StopRejects(stop)
     THEN /\ builder' = None
          /\ res' = Result("stop", [stop |-> stop], FALSE,
                           ErrUsize("StopSequencesOutOfRange", Len(stop)))
     ELSE /\ builder' = Some([cc EXCEPT !.stop = Some(stop)])
          /\ res' = Result("stop", [stop |-> stop], TRUE, NoErr)

\* u16 arguments of n()
NArgs == {0, 1, 65535}

N(n) ==
  /\ UNCHANGED client_side
  /\ IsSome(builder)
  /\ builder' = Some([cc EXCEPT !.n = Some(n)])
  /\ res' = Result("n", [n |-> n], TRUE, NoErr)

Stream(stream) ==
  /\ UNCHANGED client_side
  /\ IsSome(builder)
  /\ builder' = Some([cc EXCEPT !.stream = Some(stream)])
  /\ res' = Result("stream", [stream |-> stream], TRUE, NoErr)

\* u32 arguments of max_tokens()
MaxTokensArgs == {0, 5000}

MaxTokens(max_tokens) ==
  /\ UNCHANGED client_side
  /\ IsSome(builder)
  /\ builder' = Some([cc EXCEPT !.max_tokens = Some(max_tokens)])
  /\ res' = Result("max_tokens", [max_tokens |-> max_tokens], TRUE, NoErr)

NextStop ==
  \/ New
  \/ \E l \in StopArgs : Stop(l)
  \/ \E k \in NArgs : N(k)
  \/ \E b \in BOOLEAN : Stream(b)
  \/ \E k \in MaxTokensArgs : MaxTokens(k)

SpecStop == Init /\ [][NextStop]_vars

(***************************************************************************)
(* logit_bias, user, function_call, functions: an empty argument clears    *)
(* the field.                                                              *)
(***************************************************************************)
\* HashMap<String, f32> as a function from its keys; the empty map has no key
EmptyMap == [k \in {} |-> NaN]
MapIsEmpty(m) == DOMAIN m = {}

LogitBiasArgs ==
  {EmptyMap, [k \in {"50256"} |-> Fin(-1000)], [k \in {"50256", "11"} |-> Fin(5)]}

LogitBias(logit_bias) ==
  /\ UNCHANGED client_side
  /\ IsSome(builder)
  /\ IF MapIsEmpty(logit_bias)
     THEN builder' = Some([cc EXCEPT !.logit_bias = None])
     ELSE builder' = Some([cc EXCEPT !.logit_bias = Some(logit_bias)])
  /\ res' = Result("logit_bias", [logit_bias |-> logit_bias], TRUE, NoErr)

UserArgs == {"", "user-1", " "}

\* faulty variant: the empty string is stored instead of clearing the field
User_StoresEmpty(user) ==
  /\ UNCHANGED client_side
  /\ IsSome(builder)
  /\ builder' = Some([cc EXCEPT !.user = Some(user)])
  /\ res' = Result("user", [user |-> user], TRUE, NoErr)

User(user) ==
  /\ UNCHANGED client_side
  /\ IsSome(builder)
  /\ IF Len(user) = 0
     THEN builder' = Some([cc EXCEPT !.user = None])
     ELSE builder' = Some([cc EXCEPT !.user = Some(user)])
  /\ res' = Result("user", [user |-> user], TRUE, NoErr)

FunctionCallArgs == {"", "auto", "none"}

FunctionCall(function_call) ==
  /\ UNCHANGED client_side
  /\ IsSome(builder)
  /\ IF Len(function_call) = 0
     THEN builder' = Some([cc EXCEPT !.function_call = None])
     ELSE builder' = Some([cc EXCEPT !.function_call = Some(function_call)])
  /\ res' = Result("function_call", [function_call |-> function_call], TRUE, NoErr)

FunctionDefinition(name, desription, parameters) ==
  [name |-> name, desription |-> desription, parameters |-> parameters]

FunctionDefinitions ==
  {FunctionDefinition("get_weather", "weather of a city", "{}"),
   FunctionDefinition("", "", "")}

FunctionsArgs == SeqsUpTo(FunctionDefinitions, MaxFuncs)

Functions(functions) ==
  /\ UNCHANGED client_side
  /\ IsSome(builder)
  /\ IF Len(functions) = 0
     THEN builder' = Some([cc EXCEPT !.functions = None])
     ELSE builder' = Some([cc EXCEPT !.functions = Some(functions)])
  /\ res' = Result("functions", [functions |-> functions], TRUE, NoErr)

NextOpt ==
  \/ New
  \/ \E m \in LogitBiasArgs : LogitBias(m)
  \/ \E u \in UserArgs : User(u)
  \/ \E f \in FunctionCallArgs : FunctionCall(f)
  \/ \E l \in FunctionsArgs : Functions(l)

SpecOpt == Init /\ [][NextOpt]_vars

(***************************************************************************)
(* ChatMessage and the message list of the request.                        *)
(***************************************************************************)
ChatMessage(role, content, function_call, name) ==
  [role |-> role, content |-> content, function_call |-> function_call, name |-> name]

FunctionCallRecord(name, arguments) == [name |-> name, arguments |-> arguments]

\* the messages callers hand to message() and put in the lists of messages()
ChatMessages ==
  {ChatMessage("User", "Tell me a joke", None, None),
   ChatMessage("System", "", None, None),
   ChatMessage("Function", "22C", Some(FunctionCallRecord("get_weather", "{}")),
               Some("get_weather"))}

MessagesArgs == SeqsUpTo(ChatMessages, MaxMsgs)

\* faulty variant: the content check is missing
MessageRejects_Never(message) == FALSE

MessageRejects(message) == Len(message.content) = 0

Message(message) ==
  /\ UNCHANGED client_side
  /\ IsSome(builder)
  /\ Len(cc.messages) < MaxMsgs
  /\ IF MessageRejects(message)
     THEN /\ builder' = None
          /\ res' = Result("message", [message |-> message], FALSE,
                           ErrUnit("EmptyMessageContent"))
     ELSE /\ builder' = Some([cc EXCEPT !.messages = Append(@, message)])
          /\ res' = Result("message", [message |-> message], TRUE, NoErr)

\* faulty variant: the list is put into a fresh request, losing the fields
\* set before
Messages_IntoFreshRequest(messages) ==
  /\ UNCHANGED client_side
  /\ IsSome(builder)
  /\ builder' = Some([ChatCompletionNew EXCEPT !.messages = messages])
  /\ res' = Result("messages", [messages |-> messages], TRUE, NoErr)

Messages(messages) ==
  /\ UNCHANGED client_side
  /\ IsSome(builder)
  /\ builder' = Some([cc EXCEPT !.messages = messages])
  /\ res' = Result("messages", [messages |-> messages], TRUE, NoErr)

(***************************************************************************)
(* serde_json::to_string(self): a JSON object as a function from the names *)
(* of its members.  Option fields are skipped when None; a non-finite f32  *)
(* is written as null.                                                     *)
(***************************************************************************)
JsonNull == [cls |-> "null", t |-> 0]

JsonF32(v) == IF v.cls = "fin" THEN v ELSE JsonNull

RoleToJson(role) ==
  CASE role = "System" -> "system"
    [] role = "Assistant" -> "assistant"
    [] role = "User" -> "user"
    [] role = "Function" -> "function"

ChatMessageToJson(m) ==
  LET members == {"role", "content"}
                   \cup (IF IsSome(m.function_call) THEN {"function_call"} ELSE {})
                   \cup (IF IsSome(m.name) THEN {"name"} ELSE {})
  IN  [k \in members |->
         CASE k = "role" -> RoleToJson(m.role)
           [] k = "content" -> m.content
           [] k = "function_call" -> Unwrap(m.function_call)
           [] k = "name" -> Unwrap(m.name)]

OptionFields ==
  {"model", "temperature", "top_p", "n", "stream", "stop", "max_tokens",
   "presence_penalty", "frequency_penalty", "logit_bias", "user",
   "function_call", "functions"}

F32Fields == {"temperature", "top_p", "presence_penalty", "frequency_penalty"}

\* faulty variant: user has no skip_serializing_if and is written as null
\* when it is None
ToJson_NullForUnsetUser(c) ==
  LET members == {"messages", "user"} \cup {f \in OptionFields : IsSome(c[f])}
  IN  [k \in members |->
         IF k = "messages"
         THEN [i \in 1..Len(c.messages) |-> ChatMessageToJson(c.messages[i])]
         ELSE IF IsNone(c[k]) THEN JsonNull
         ELSE IF k \in F32Fields THEN JsonF32(Unwrap(c[k]))
         ELSE IF k = "logit_bias"
         THEN [t \in DOMAIN Unwrap(c[k]) |-> JsonF32(Unwrap(c[k])[t])]
         ELSE Unwrap(c[k])]

ToJson(c) ==
  LET members == {"messages"} \cup {f \in OptionFields : IsSome(c[f])}
  IN  [k \in members |->
         IF k = "messages"
         THEN [i \in 1..Len(c.messages) |-> ChatMessageToJson(c.messages[i])]
         ELSE IF k \in F32Fields THEN JsonF32(Unwrap(c[k]))
         ELSE IF k = "logit_bias"
         THEN [t \in DOMAIN Unwrap(c[k]) |-> JsonF32(Unwrap(c[k])[t])]
         ELSE Unwrap(c[k])]

(***************************************************************************)
(* Client                                                                  *)
(***************************************************************************)
ApiTypes == {"OpenAI", "Azure", "AzureAD"}

EndsWith(s, suffix) ==
  /\ Len(s) >= Len(suffix)
  /\ SubSeq(s, Len(s) - Len(suffix) + 1, Len(s)) = suffix

\* faulty variant: the endpoint is stored as given
UpdateApiEndpoint_AsGiven(api_endpoint) == api_endpoint

UpdateApiEndpointToHaveASlashAtTheEnd(api_endpoint) ==
  IF ~EndsWith(api_endpoint, "/") THEN api_endpoint \o "/" ELSE api_endpoint

ClientNew(auth, api_endpoint, api_type) ==
  [api_endpoint |-> UpdateApiEndpointToHaveASlashAtTheEnd(api_endpoint),
   api_type |-> api_type,
   auth |-> auth]

Auth(api_key) == [api_key |-> api_key]

GetApiKey(client) == client.auth.api_key

DefaultApiVersion == "2023-05-15"

\* faulty variant: only ApiType::Azure requires the model id
GenerateApiUri_OnlyAzureChecks(client, api_path, model_id, api_version) ==
  LET version == IF IsSome(api_version) THEN Unwrap(api_version) ELSE DefaultApiVersion
      model == IF IsSome(model_id) THEN Unwrap(model_id) ELSE ""
  IN  IF client.api_type = "Azure" /\ IsNone(model_id)
      THEN [ok |-> FALSE, val |-> "",
            err |-> ErrKind("ClientError", "ModelIdMissingToGenerateApiUriForAzure")]
      ELSE IF client.api_type \in {"Azure", "AzureAD"}
      THEN [ok |-> TRUE,
            val |-> client.api_endpoint \o "openai/deployments/" \o model
                      \o "/" \o api_path \o "?api-version=" \o version,
            err |-> NoErr]
      ELSE [ok |-> TRUE, val |-> client.api_endpoint \o "engines/" \o api_path, err |-> NoErr]

\* faulty variant: without an API version the query parameter is left out
GenerateApiUri_NoDefaultVersion(client, api_path, model_id, api_version) ==
  IF client.api_type \in {"Azure", "AzureAD"}
  THEN IF IsSome(model_id)
       THEN [ok |-> TRUE,
             val |-> client.api_endpoint \o "openai/deployments/" \o Unwrap(model_id)
                       \o "/" \o api_path
                       \o (IF IsSome(api_version)
                           THEN "?api-version=" \o Unwrap(api_version) ELSE ""),
             err |-> NoErr]
       ELSE [ok |-> FALSE, val |-> "",
             err |-> ErrKind("ClientError", "ModelIdMissingToGenerateApiUriForAzure")]
  ELSE [ok |-> TRUE, val |-> client.api_endpoint \o "engines/" \o api_path, err |-> NoErr]

\* faulty variant: the OpenAI URI names the engine when a model id is given
GenerateApiUri_ModelInOpenAIPath(client, api_path, model_id, api_version) ==
  IF client.api_type \in {"Azure", "AzureAD"}
  THEN IF IsSome(model_id)
       THEN LET version == IF IsSome(api_version) THEN Unwrap(api_version)
                           ELSE DefaultApiVersion
            IN  [ok |-> TRUE,
                 val |-> client.api_endpoint \o "openai/deployments/" \o Unwrap(model_id)
                           \o "/" \o api_path \o "?api-version=" \o version,
                 err |-> NoErr]
       ELSE [ok |-> FALSE, val |-> "",
             err |-> ErrKind("ClientError", "ModelIdMissingToGenerateApiUriForAzure")]
  ELSE [ok |-> TRUE,
        val |-> client.api_endpoint \o "engines/"
                  \o (IF IsSome(model_id) THEN Unwrap(model_id) \o "/" ELSE "") \o api_path,
        err |-> NoErr]

\* Result<String, Error>
GenerateApiUri(client, api_path, model_id, api_version) ==
  IF client.api_type \in {"Azure", "AzureAD"}
  THEN IF IsSome(model_id)
       THEN LET version == IF IsSome(api_version) THEN Unwrap(api_version)
                           ELSE DefaultApiVersion
            IN  [ok |-> TRUE,
                 val |-> client.api_endpoint \o "openai/deployments/" \o Unwrap(model_id)
                           \o "/" \o api_path \o "?api-version=" \o version,
                 err |-> NoErr]
       ELSE [ok |-> FALSE, val |-> "",
             err |-> ErrKind("ClientError", "ModelIdMissingToGenerateApiUriForAzure")]
  ELSE [ok |-> TRUE, val |-> client.api_endpoint \o "engines/" \o api_path, err |-> NoErr]

(***************************************************************************)
(* Requestor::post                                                         *)
(***************************************************************************)
Header(name, value) == <<name, value>>

\* faulty variant: every kind but OpenAI gets the api-key header
AuthHeaders_KeyUnlessOpenAI(client) ==
  IF client.api_type = "OpenAI"
  THEN <<Header("authorization", "Bearer " \o GetApiKey(client))>>
  ELSE <<Header("api-key", GetApiKey(client))>>

AuthHeaders(client) ==
  IF client.api_type = "Azure"
  THEN <<Header("api-key", GetApiKey(client))>>
  ELSE IF client.api_type = "OpenAI"
  THEN <<Header("authorization", "Bearer " \o GetApiKey(client))>>
  ELSE <<>>

HttpRequest(client, api_uri, body) ==
  [method |-> "POST", uri |-> api_uri,
   headers |-> <<Header("content-type", "application/json")>> \o AuthHeaders(client),
   body |-> body]

\* what the network does with one request: send() fails, or a response
\* arrives whose body text() reads or fails to read
ChatCompletionResponse ==
  [id |-> "chatcmpl-1", object |-> "chat.completion", created |-> 1, model |-> "gpt-4",
   choices |-> <<>>, usage |-> None]

NetOutcomes ==
  {[kind |-> "send_error", status |-> 0, json |-> FALSE],
   [kind |-> "text_error", status |-> 200, json |-> FALSE],
   [kind |-> "response", status |-> 200, json |-> TRUE],
   [kind |-> "response", status |-> 200, json |-> FALSE],
   [kind |-> "response", status |-> 500, json |-> FALSE]}

\* faulty variant: the request goes out before the URI is resolved, to the
\* bare endpoint when resolution fails
Post_SendsBeforeResolving(client, api_path, body, model_id, api_version, net) ==
  LET api_uri == GenerateApiUri(client, api_path, model_id, api_version)
      request == HttpRequest(client,
                             IF api_uri.ok THEN api_uri.val
                             ELSE client.api_endpoint \o api_path, body)
  IN  IF ~api_uri.ok
      THEN [ok |-> FALSE, val |-> None, err |-> api_uri.err, sent |-> <<request>>]
      ELSE IF net.kind = "response"
      THEN [ok |-> TRUE, val |-> Some(net), err |-> NoErr, sent |-> <<request>>]
      ELSE [ok |-> FALSE, val |-> None, err |-> ErrKind("reqwest::Error", net.kind),
            sent |-> <<request>>]

\* faulty variant: a failed send is tried a second time
Post_RetriesFailedSend(client, api_path, body, model_id, api_version, net) ==
  LET api_uri == GenerateApiUri(client, api_path, model_id, api_version)
  IN  IF ~api_uri.ok
      THEN [ok |-> FALSE, val |-> None, err |-> api_uri.err, sent |-> <<>>]
      ELSE LET request == HttpRequest(client, api_uri.val, body)
           IN  IF net.kind = "response"
               THEN [ok |-> TRUE, val |-> Some(net), err |-> NoErr, sent |-> <<request>>]
               ELSE [ok |-> FALSE, val |-> None, err |-> ErrKind("reqwest::Error", net.kind),
                     sent |-> IF net.kind = "send_error" THEN <<request, request>>
                              ELSE <<request>>]

\* the outcome of post: [ok, val, err, sent]
Post(client, api_path, body, model_id, api_version, net) ==
  LET api_uri == GenerateApiUri(client, api_path, model_id, api_version)
  IN  IF ~api_uri.ok
      THEN [ok |-> FALSE, val |-> None, err |-> api_uri.err, sent |-> <<>>]
      ELSE LET request == HttpRequest(client, api_uri.val, body)
           IN  IF net.kind = "response"
               THEN [ok |-> TRUE, val |-> Some(net), err |-> NoErr, sent |-> <<request>>]
               ELSE [ok |-> FALSE, val |-> None, err |-> ErrKind("reqwest::Error", net.kind),
                     sent |-> <<request>>]

ApiPath == "chat/completions"

\* a direct call of Requestor::post on a client
PostCall(client, api_path, body, model_id, api_version, net) ==
  LET r == Post(client, api_path, body, model_id, api_version, net)
  IN  /\ UNCHANGED client_side
      /\ builder' = builder
      /\ res' = [op |-> "post",
                 arg |-> [client |-> client, api_path |-> api_path, body |-> body,
                          model_id |-> model_id, api_version |-> api_version, net |-> net],
                 ok |-> r.ok, err |-> r.err, val |-> r.val, sent |-> r.sent]

(***************************************************************************)
(* ChatCompletion::create                                                  *)
(***************************************************************************)
CreateArg(client, model_id, api_version, net) ==
  [client |-> client, model_id |-> model_id, api_version |-> api_version, net |-> net]

\* faulty variant: the empty-list check is missing
CreateRejects_Never(c) == FALSE

CreateRejects(c) == Len(c.messages) = 0

CreateStampsModel(client) == client.api_type = "OpenAI"

Create(client, model_id, api_version, net) ==
  /\ UNCHANGED client_side
  /\ IsSome(builder)
  /\ LET arg == CreateArg(client, model_id, api_version, net)
     IN  IF CreateRejects(cc)
         THEN /\ builder' = builder
              /\ res' = [op |-> "create", arg |-> arg, ok |-> FALSE,
                         err |-> ErrUnit("EmptyMessages"), val |-> None, sent |-> <<>>]
         ELSE LET stamped == IF CreateStampsModel(client)
                             THEN [cc EXCEPT !.model = Some(model_id)]
                             ELSE cc
                  request_body == ToJson(stamped)
                  r == Post(client, ApiPath, request_body, Some(model_id), api_version, net)
              IN  /\ builder' = Some(stamped)
                  /\ IF ~r.ok
                     THEN res' = [op |-> "create", arg |-> arg, ok |-> FALSE, err |-> r.err,
                                  val |-> None, sent |-> r.sent]
                     ELSE IF ~Unwrap(r.val).json
                     THEN res' = [op |-> "create", arg |-> arg, ok |-> FALSE,
                                  err |-> ErrKind("reqwest::Error", "decode"),
                                  val |-> None, sent |-> r.sent]
                     ELSE res' = [op |-> "create", arg |-> arg, ok |-> TRUE, err |-> NoErr,
                                  val |-> Some(ChatCompletionResponse), sent |-> r.sent]

(***************************************************************************)
(* The calls a program makes on one request and its clients.               *)
(***************************************************************************)
ApiKeys == {"12345abcd", "sk-other"}
ApiEndpoints == {"https://x.com/v1", "https://x.com/v1/"}
Clients == {ClientNew(Auth(k), e, t) : k \in ApiKeys, e \in ApiEndpoints, t \in ApiTypes}
ModelIds == {"gpt-4", "dep-1"}
ApiVersions == {None, Some("2023-05-15"), Some("2024-02-01")}
PostBodies == {[prompt |-> "Once upon a time", max_tokens |-> 5]}

\* the clients and temperatures of the runs that build a request and create it
CreateClients == {ClientNew(Auth("12345abcd"), "https://x.com/v1", t) : t \in ApiTypes}
CreateApiVersions == {None, Some("2024-02-01")}
CreateTemperatures == {Fin(10), Fin(21), NaN}

Next ==
  \/ New
  \/ \E m \in ChatMessages : Message(m)
  \/ \E l \in MessagesArgs : Messages(l)
  \/ \E v \in CreateTemperatures : Temperature(v)
  \/ \E c \in CreateClients, m \in ModelIds, v \in CreateApiVersions, net \in NetOutcomes :
       Create(c, m, v, net)

Spec == Init /\ [][Next]_vars

NextPost ==
  \E c \in Clients, b \in PostBodies, m \in {None} \cup {Some(x) : x \in ModelIds},
     v \in ApiVersions, net \in NetOutcomes :
    PostCall(c, ApiPath, b, m, v, net)

SpecPost == Init /\ [][NextPost]_vars

(***************************************************************************)
(* Client::new and direct calls of Client::generate_api_uri on the shared   *)
(* client.                                                                 *)
(***************************************************************************)
ClientNewCall(auth, api_endpoint, api_type) ==
  /\ openai_client' = Some(ClientNew(auth, api_endpoint, api_type))
  /\ res' = Result("client_new",
                   [auth |-> auth, api_endpoint |-> api_endpoint, api_type |-> api_type],
                   TRUE, NoErr)
  /\ UNCHANGED <<builder, tasks, message_builder>>

GenerateApiUriCall(api_path, model_id, api_version) ==
  /\ IsSome(openai_client)
  /\ LET r == GenerateApiUri(Unwrap(openai_client), api_path, model_id, api_version)
     IN  res' = [op |-> "generate_api_uri",
                 arg |-> [api_path |-> api_path, model_id |-> model_id,
                          api_version |-> api_version],
                 ok |-> r.ok, err |-> r.err,
                 val |-> IF r.ok THEN Some(r.val) ELSE None, sent |-> <<>>]
  /\ UNCHANGED <<builder, openai_client, tasks, message_builder>>

\* endpoints handed to Client::new: without and with the trailing slash, and
\* the empty endpoint of main.rs
UriEndpoints == ApiEndpoints \cup {""}
ApiPaths == {"chat/completions", "api/path"}
OptModelIds == {None} \cup {Some(x) : x \in ModelIds}

NextUri ==
  \/ \E k \in ApiKeys, e \in UriEndpoints, t \in ApiTypes : ClientNewCall(Auth(k), e, t)
  \/ \E p \in ApiPaths, m \in OptModelIds, v \in ApiVersions : GenerateApiUriCall(p, m, v)

SpecUri == Init /\ [][NextUri]_vars

(***************************************************************************)
(* Requests with fields of every kind set or unset, serialized by create.   *)
(***************************************************************************)
SerMessagesArgs == {<<>>, <<ChatMessage("User", "Tell me a joke", None, None)>>}
SerTemperatures == {Fin(10), NaN}
SerStopArgs == {<<>>, <<"END">>}
SerUserArgs == {"", "user-1"}
SerNetOutcomes == {n \in NetOutcomes : n.kind = "send_error" \/ n.json}

NextSer ==
  \/ New
  \/ \E l \in SerMessagesArgs : Messages(l)
  \/ \E v \in SerTemperatures : Temperature(v)
  \/ \E l \in SerStopArgs : Stop(l)
  \/ \E u \in SerUserArgs : User(u)
  \/ N(1)
  \/ Stream(TRUE)
  \/ \E c \in CreateClients, net \in SerNetOutcomes : Create(c, "gpt-4", None, net)

SpecSer == Init /\ [][NextSer]_vars

(***************************************************************************)
(* ChatMessageBuilder                                                      *)
(* message_builder: the builder value the caller owns (its messages), None  *)
(* before new() and after build() consumed it.                              *)
(***************************************************************************)
MaxBuilt == 3

ChatMessageBuilderNew ==
  /\ message_builder' = Some(<<>>)
  /\ res' = Result("ChatMessageBuilder::new", NoArgs, TRUE, NoErr)
  /\ UNCHANGED <<builder, openai_client, tasks>>

\* self.messages.push(message); self
Push(op, arg, message) ==
  /\ IsSome(message_builder)
  /\ Len(Unwrap(message_builder)) < MaxBuilt
  /\ message_builder' = Some(Append(Unwrap(message_builder), message))
  /\ res' = Result(op, arg, TRUE, NoErr)
  /\ UNCHANGED <<builder, openai_client, tasks>>

\* faulty variant: a system message with empty content is not pushed
ChatMessageBuilderSystem_DropsEmpty(content) ==
  /\ IsSome(message_builder)
  /\ Len(Unwrap(message_builder)) < MaxBuilt
  /\ message_builder' =
       IF content = "" THEN message_builder
       ELSE Some(Append(Unwrap(message_builder), ChatMessage("System", content, None, None)))
  /\ res' = Result("ChatMessageBuilder::system", [content |-> content], TRUE, NoErr)
  /\ UNCHANGED <<builder, openai_client, tasks>>

ChatMessageBuilderSystem(content) ==
  Push("ChatMessageBuilder::system", [content |-> content],
       ChatMessage("System", content, None, None))

ChatMessageBuilderAssistant(content) ==
  Push("ChatMessageBuilder::assistant", [content |-> content],
       ChatMessage("Assistant", content, None, None))

ChatMessageBuilderUser(content) ==
  Push("ChatMessageBuilder::user", [content |-> content],
       ChatMessage("User", content, None, None))

ChatMessageBuilderFunction(content, function_call, name) ==
  Push("ChatMessageBuilder::function",
       [content |-> content, function_call |-> function_call, name |-> name],
       ChatMessage("Function", content, Some(function_call), Some(name)))

\* build(self) moves the messages out and consumes the builder
ChatMessageBuilderBuild ==
  /\ IsSome(message_builder)
  /\ message_builder' = None
  /\ res' = [Result("ChatMessageBuilder::build", NoArgs, TRUE, NoErr)
               EXCEPT !.val = Some(Unwrap(message_builder))]
  /\ UNCHANGED <<builder, openai_client, tasks>>

Contents == {"", "Hello"}
BuilderFunctionCalls == {FunctionCallRecord("get_weather", "{}")}
BuilderNames == {"get_weather"}

NextMsgBuilder ==
  \/ ChatMessageBuilderNew
  \/ \E c \in Contents : ChatMessageBuilderSystem(c)
  \/ \E c \in Contents : ChatMessageBuilderAssistant(c)
  \/ \E c \in Contents : ChatMessageBuilderUser(c)
  \/ \E c \in Contents, f \in BuilderFunctionCalls, nm \in BuilderNames :
       ChatMessageBuilderFunction(c, f, nm)
  \/ ChatMessageBuilderBuild

SpecMsgBuilder == Init /\ [][NextMsgBuilder]_vars

(***************************************************************************)
(* Concurrent calls through one shared Client (&self).                      *)
(* tasks: the calls in flight, each with its own arguments and locals:      *)
(*   pc       where the call stands                                         *)
(*   api_uri  the local api_uri of post / the value generate_api_uri returns *)
(*   request  the request handed to send()                                  *)
(*   net      what the network did with it                                  *)
(*   result   "pending", "Ok" or "Err"                                      *)
(***************************************************************************)
NTasks == 2

Task(call, api_path, body, model_id, api_version) ==
  [call |-> call, api_path |-> api_path, body |-> body, model_id |-> model_id,
   api_version |-> api_version, pc |-> "start", api_uri |-> None, request |-> <<>>,
   net |-> "", result |-> "pending"]

\* the client is constructed once; the calls below borrow it
SharedClientNew(auth, api_endpoint, api_type) ==
  /\ openai_client = None
  /\ ClientNewCall(auth, api_endpoint, api_type)

GenerateApiUriStart(api_path, model_id, api_version) ==
  /\ IsSome(openai_client)
  /\ Len(tasks) < NTasks
  /\ tasks' = Append(tasks, Task("generate_api_uri", api_path, None, model_id, api_version))
  /\ UNCHANGED <<builder, res, openai_client, message_builder>>

PostStart(api_path, body, model_id, api_version) ==
  /\ IsSome(openai_client)
  /\ Len(tasks) < NTasks
  /\ tasks' = Append(tasks, Task("post", api_path, Some(body), model_id, api_version))
  /\ UNCHANGED <<builder, res, openai_client, message_builder>>

GenerateApiUriReturn(i) ==
  /\ tasks[i].call = "generate_api_uri" /\ tasks[i].pc = "start"
  /\ LET t == tasks[i]
         r == GenerateApiUri(Unwrap(openai_client), t.api_path, t.model_id, t.api_version)
     IN  tasks' = [tasks EXCEPT ![i].pc = "done",
                                ![i].api_uri = IF r.ok THEN Some(r.val) ELSE None,
                                ![i].result = IF r.ok THEN "Ok" ELSE "Err"]
  /\ UNCHANGED <<builder, res, openai_client, message_builder>>

\* faulty variant: the resolved URI is written back as the client's endpoint
PostResolveUri_StoresUri(i) ==
  /\ tasks[i].call = "post" /\ tasks[i].pc = "start"
  /\ LET t == tasks[i]
         r == GenerateApiUri(Unwrap(openai_client), t.api_path, t.model_id, t.api_version)
     IN  IF r.ok
         THEN /\ tasks' = [tasks EXCEPT ![i].pc = "resolved", ![i].api_uri = Some(r.val)]
              /\ openai_client' = Some([Unwrap(openai_client) EXCEPT !.api_endpoint = r.val])
         ELSE /\ tasks' = [tasks EXCEPT ![i].pc = "done", ![i].result = "Err"]
              /\ openai_client' = openai_client
  /\ UNCHANGED <<builder, res, message_builder>>

\* let api_uri = self.generate_api_uri(api_path, model_id, api_version)?;
PostResolveUri(i) ==
  /\ tasks[i].call = "post" /\ tasks[i].pc = "start"
  /\ LET t == tasks[i]
         r == GenerateApiUri(Unwrap(openai_client), t.api_path, t.model_id, t.api_version)
     IN  IF r.ok
         THEN tasks' = [tasks EXCEPT ![i].pc = "resolved", ![i].api_uri = Some(r.val)]
         ELSE tasks' = [tasks EXCEPT ![i].pc = "done", ![i].result = "Err"]
  /\ UNCHANGED <<builder, res, openai_client, message_builder>>

\* the request builder: content type, the header of self.api_type, the body
PostBuildRequest(i) ==
  /\ tasks[i].call = "post" /\ tasks[i].pc = "resolved"
  /\ LET t == tasks[i]
     IN  tasks' = [tasks EXCEPT
                     ![i].pc = "built",
                     ![i].request = <<HttpRequest(Unwrap(openai_client), Unwrap(t.api_uri),
                                                  Unwrap(t.body))>>]
  /\ UNCHANGED <<builder, res, openai_client, message_builder>>

\* .send().await?
PostSend(i, net) ==
  /\ tasks[i].call = "post" /\ tasks[i].pc = "built"
  /\ IF net.kind = "send_error"
     THEN tasks' = [tasks EXCEPT ![i].pc = "done", ![i].net = net.kind, ![i].result = "Err"]
     ELSE tasks' = [tasks EXCEPT ![i].pc = "sent", ![i].net = net.kind]
  /\ UNCHANGED <<builder, res, openai_client, message_builder>>

\* .text().await?; Ok(response)
PostText(i) ==
  /\ tasks[i].call = "post" /\ tasks[i].pc = "sent"
  /\ tasks' = [tasks EXCEPT ![i].pc = "done",
                            ![i].result = IF tasks[i].net = "text_error" THEN "Err" ELSE "Ok"]
  /\ UNCHANGED <<builder, res, openai_client, message_builder>>

ConcBodies == {[prompt |-> "Once upon a time", max_tokens |-> 5],
               [prompt |-> "Tell me a joke", max_tokens |-> 7]}
ConcModelIds == {None, Some("gpt-4")}
ConcNetOutcomes == {n \in NetOutcomes : n.status # 500}

NextConc ==
  \/ \E e \in ApiEndpoints, t \in ApiTypes : SharedClientNew(Auth("12345abcd"), e, t)
  \/ \E m \in ConcModelIds : GenerateApiUriStart(ApiPath, m, None)
  \/ \E b \in ConcBodies, m \in ConcModelIds : PostStart(ApiPath, b, m, None)
  \/ \E i \in DOMAIN tasks : GenerateApiUriReturn(i)
  \/ \E i \in DOMAIN tasks : PostResolveUri(i)
  \/ \E i \in DOMAIN tasks : PostBuildRequest(i)
  \/ \E i \in DOMAIN tasks, net \in ConcNetOutcomes : PostSend(i, net)
  \/ \E i \in DOMAIN tasks : PostText(i)

SpecConc == Init /\ [][NextConc]_vars

(***************************************************************************)
(* Every setter, message, messages and create on one request.               *)
(***************************************************************************)
FrameMessage == ChatMessage("User", "Tell me a joke", None, None)
FrameClients == {c \in CreateClients : c.api_type # "AzureAD"}
FrameNetOutcomes == {n \in NetOutcomes : n.kind = "response" /\ n.status = 200}

NextFrame ==
  \/ New
  \/ Message(FrameMessage)
  \/ Messages(<<>>)
  \/ Temperature(Fin(10))
  \/ TopP(Fin(5))
  \/ N(1)
  \/ Stream(TRUE)
  \/ \E l \in {<<"END">>, <<"a", "b", "c", "d", "e">>} : Stop(l)
  \/ MaxTokens(5000)
  \/ PresencePenalty(Fin(-20))
  \/ FrequencyPenalty(Fin(20))
  \/ LogitBias([k \in {"50256"} |-> Fin(-1000)])
  \/ \E u \in {"", "user-1"} : User(u)
  \/ FunctionCall("auto")
  \/ Functions(<<FunctionDefinition("get_weather", "weather of a city", "{}")>>)
  \/ \E c \in FrameClients, net \in FrameNetOutcomes : Create(c, "gpt-4", None, net)

SpecFrame == Init /\ [][NextFrame]_vars

(***************************************************************************)
(* Properties                                                              *)
(***************************************************************************)
\* v is a number in the closed interval [lo/10, hi/10]
InClosedRange(v, lo, hi) == v.cls = "fin" /\ lo <= v.t /\ v.t <= hi

Contains(s, sub) ==
  \E i \in 1..(Len(s) + 1) : \E j \in (i - 1)..Len(s) : SubSeq(s, i, j) = sub

HeadersNamed(request, name) ==
  {i \in 1..Len(request.headers) : request.headers[i][1] = name}

HeadersCarrying(request, secret) ==
  {i \in 1..Len(request.headers) : Contains(request.headers[i][2], secret)}

\* C1: every request a post call sends carries the credential its client's
\* kind prescribes: Azure exactly one api-key header holding the secret and no
\* Authorization header; OpenAI the secret as bearer Authorization and no
\* api-key header; AzureAD no header holding the secret at all.
C1_AuthHeaderByApiType ==
  res.op = "post" =>
    \A i \in 1..Len(res.sent) :
      LET request == res.sent[i]
          client == res.arg.client
          secret == GetApiKey(client)
      IN  /\ client.api_type = "Azure" =>
               /\ Cardinality(HeadersNamed(request, "api-key")) = 1
               /\ \A h \in HeadersNamed(request, "api-key") : request.headers[h][2] = secret
               /\ HeadersNamed(request, "authorization") = {}
               /\ HeadersCarrying(request, secret) = HeadersNamed(request, "api-key")
          /\ client.api_type = "OpenAI" =>
               /\ Cardinality(HeadersNamed(request, "authorization")) = 1
               /\ \A h \in HeadersNamed(request, "authorization") :
                    request.headers[h][2] = "Bearer " \o secret
               /\ HeadersNamed(request, "api-key") = {}
          /\ client.api_type = "AzureAD" =>
               /\ HeadersCarrying(request, secret) = {}
               /\ HeadersNamed(request, "api-key") = {}
               /\ HeadersNamed(request, "authorization") = {}

\* a post call on an AzureAD client has sent its request
C1_Witness ==
  /\ res.op = "post"
  /\ res.arg.client.api_type = "AzureAD"
  /\ Len(res.sent) = 1
  /\ res.ok

\* C2: the body a create call serializes has a 'model' member equal to the
\* call's model id when the client is OpenAI, and no 'model' member when the
\* client is Azure or AzureAD, also when create was called on the value before.
C2_ModelMemberByApiType ==
  (res.op = "create" /\ Len(res.sent) > 0) =>
    LET body == res.sent[1].body
    IN  IF res.arg.client.api_type = "OpenAI"
        THEN "model" \in DOMAIN body /\ body["model"] = res.arg.model_id
        ELSE "model" \notin DOMAIN body

\* the request of a ChatCompletion value is valid
RequestValid(c) ==
  /\ Len(c.messages) > 0
  /\ \A i \in 1..Len(c.messages) : c.messages[i].content # ""
  /\ IsSome(c.temperature) => InClosedRange(Unwrap(c.temperature), 0, 20)
  /\ IsSome(c.top_p) => InClosedRange(Unwrap(c.top_p), 0, 10)
  /\ IsSome(c.presence_penalty) => InClosedRange(Unwrap(c.presence_penalty), -20, 20)
  /\ IsSome(c.frequency_penalty) => InClosedRange(Unwrap(c.frequency_penalty), -20, 20)
  /\ IsSome(c.stop) => Len(Unwrap(c.stop)) <= 4

\* C3: create hands a body to the dispatcher only if the request is valid:
\* messages non-empty, no message with empty content, every numeric field
\* that is set within its range, at most 4 stop sequences.
C3_OnlyValidRequestsDispatched ==
  (res.op = "create" /\ Len(res.sent) > 0) => RequestValid(cc)

\* C4: a create call made while the message list is empty fails with
\* EmptyMessages and sends no HTTP request, whatever the other fields, the
\* client kind, the model id and the API version.
C4_EmptyMessagesRejected ==
  [][(IsSome(builder) /\ Len(cc.messages) = 0 /\ res'.op = "create") =>
       /\ ~res'.ok
       /\ res'.err = ErrUnit("EmptyMessages")
       /\ res'.sent = <<>>]_vars

\* create was refused on a request with no message, another field set, on a
\* gateway client
C4_Witness ==
  /\ res.op = "create"
  /\ res.err = ErrUnit("EmptyMessages")
  /\ IsSome(builder) /\ IsSome(cc.temperature) /\ Len(cc.messages) = 0
  /\ res.arg.client.api_type = "Azure"
  /\ res.arg.net.kind = "response"

\* C5: message(m) fails with EmptyMessageContent exactly when m.content is
\* empty; otherwise it succeeds and the new message list is the old one with
\* m appended.
C5_MessageAppendsOrRejects ==
  [][(IsSome(builder) /\ res'.op = "message") =>
       LET m == res'.arg.message
       IN  /\ res'.ok <=> m.content # ""
           /\ ~res'.ok => res'.err = ErrUnit("EmptyMessageContent")
           /\ res'.ok => /\ IsSome(builder')
                         /\ Unwrap(builder').messages = Append(cc.messages, m)]_vars

\* a second message was appended behind a different first one
C5_Witness ==
  /\ res.op = "message" /\ res.ok
  /\ IsSome(builder) /\ Len(cc.messages) = 2
  /\ cc.messages[2] = res.arg.message
  /\ cc.messages[1] # cc.messages[2]

\* C6: temperature(v) succeeds exactly when 0.0 <= v <= 2.0; on success the
\* field holds v, on failure the error is TemperatureValueOutOfRange(v).
C6_TemperatureIffInRange ==
  res.op = "temperature" =>
    LET v == res.arg.temperature
    IN  /\ res.ok <=> InClosedRange(v, 0, 20)
        /\ res.ok => IsSome(builder) /\ cc.temperature = Some(v)
        /\ ~res.ok => res.err = ErrF32("TemperatureValueOutOfRange", v)

\* C7: top_p(v) succeeds exactly when 0.0 <= v <= 1.0; on success the field
\* holds v, on failure the error is TopPValueOutOfRange(v).
C7_TopPIffInRange ==
  res.op = "top_p" =>
    LET v == res.arg.top_p
    IN  /\ res.ok <=> InClosedRange(v, 0, 10)
        /\ res.ok => IsSome(builder) /\ cc.top_p = Some(v)
        /\ ~res.ok => res.err = ErrF32("TopPValueOutOfRange", v)

\* C8: presence_penalty(v) and frequency_penalty(v) each succeed exactly when
\* -2.0 <= v <= 2.0; on failure each returns its own error carrying v, on
\* success it sets its own penalty field to v and leaves the other one alone.
C8_PenaltiesIffInRange ==
  [][/\ (IsSome(builder) /\ res'.op = "presence_penalty") =>
          LET v == res'.arg.presence_penalty
          IN  /\ res'.ok <=> InClosedRange(v, -20, 20)
              /\ ~res'.ok => res'.err = ErrF32("PresencePenaltyValueOutOfRange", v)
              /\ res'.ok => /\ IsSome(builder')
                            /\ Unwrap(builder').presence_penalty = Some(v)
                            /\ Unwrap(builder').frequency_penalty = cc.frequency_penalty
     /\ (IsSome(builder) /\ res'.op = "frequency_penalty") =>
          LET v == res'.arg.frequency_penalty
          IN  /\ res'.ok <=> InClosedRange(v, -20, 20)
              /\ ~res'.ok => res'.err = ErrF32("FrequencyPenaltyValueOutOfRange", v)
              /\ res'.ok => /\ IsSome(builder')
                            /\ Unwrap(builder').frequency_penalty = Some(v)
                            /\ Unwrap(builder').presence_penalty = cc.presence_penalty]_vars

\* C9: stop(list) clears the field on an empty list, stores a list of 1 to 4
\* entries, and fails with StopSequencesOutOfRange(count) on 5 or more; so the
\* stop field is always unset or holds 1 to 4 sequences.
C9_StopOutcomes ==
  /\ res.op = "stop" =>
       LET l == res.arg.stop
       IN  /\ Len(l) = 0 => res.ok /\ IsSome(builder) /\ cc.stop = None
           /\ Len(l) \in 1..4 => res.ok /\ IsSome(builder) /\ cc.stop = Some(l)
           /\ Len(l) >= 5 => ~res.ok /\ res.err = ErrUsize("StopSequencesOutOfRange", Len(l))
  /\ IsSome(builder) => (cc.stop = None \/ Len(Unwrap(cc.stop)) \in 1..4)

\* stop stored a list of exactly 4 sequences
C9_Witness ==
  /\ res.op = "stop" /\ res.ok
  /\ Len(res.arg.stop) = 4
  /\ IsSome(builder) /\ cc.stop = Some(res.arg.stop)

\* C10: user, function_call, logit_bias and functions leave the field unset
\* when called with an empty value and store a non-empty one; none of the four
\* fields ever holds an empty value.
C10_EmptyClearsField ==
  /\ res.op = "user" =>
       cc.user = (IF res.arg.user = "" THEN None ELSE Some(res.arg.user))
  /\ res.op = "function_call" =>
       cc.function_call =
         (IF res.arg.function_call = "" THEN None ELSE Some(res.arg.function_call))
  /\ res.op = "logit_bias" =>
       cc.logit_bias =
         (IF DOMAIN res.arg.logit_bias = {} THEN None ELSE Some(res.arg.logit_bias))
  /\ res.op = "functions" =>
       cc.functions =
         (IF res.arg.functions = <<>> THEN None ELSE Some(res.arg.functions))
  /\ IsSome(builder) =>
       /\ cc.user # Some("")
       /\ cc.function_call # Some("")
       /\ IsSome(cc.logit_bias) => DOMAIN Unwrap(cc.logit_bias) # {}
       /\ IsSome(cc.functions) => Len(Unwrap(cc.functions)) > 0

\* user("") was called and the field is unset while the other three hold values
C10_Witness ==
  /\ res.op = "user" /\ res.arg.user = ""
  /\ IsSome(builder) /\ cc.user = None
  /\ IsSome(cc.function_call) /\ IsSome(cc.logit_bias) /\ IsSome(cc.functions)

\* C11: on an Azure or AzureAD client generate_api_uri fails, with
\* ClientError(ModelIdMissingToGenerateApiUriForAzure), exactly when model_id
\* is None, whatever the path and the API version; on an OpenAI client it
\* never fails.
C11_ModelIdMissingIffGatewayAndNone ==
  res.op = "generate_api_uri" =>
    LET c == Unwrap(openai_client)
    IN  /\ c.api_type \in {"Azure", "AzureAD"} =>
             /\ ~res.ok <=> res.arg.model_id = None
             /\ ~res.ok =>
                  res.err = Some([variant |-> "ClientError",
                                  kind |-> "ModelIdMissingToGenerateApiUriForAzure"])
        /\ c.api_type = "OpenAI" => res.ok

\* an AzureAD client was asked for a URI without a model id but with a version
C11_Witness ==
  /\ res.op = "generate_api_uri"
  /\ Unwrap(openai_client).api_type = "AzureAD"
  /\ res.arg.model_id = None /\ res.arg.api_version # None
  /\ ~res.ok

\* C12: on an Azure or AzureAD client with base endpoint B, a present model
\* id M and a path P, generate_api_uri returns
\* B + "openai/deployments/" + M + "/" + P + "?api-version=" + V, V being the
\* given version or "2023-05-15" when none is given; the kind does not matter.
C12_GatewayUriShape ==
  (/\ res.op = "generate_api_uri"
   /\ Unwrap(openai_client).api_type \in {"Azure", "AzureAD"}
   /\ res.arg.model_id # None) =>
    LET B == Unwrap(openai_client).api_endpoint
        M == res.arg.model_id[1]
        P == res.arg.api_path
        V == IF res.arg.api_version = None THEN "2023-05-15" ELSE res.arg.api_version[1]
    IN  /\ res.ok
        /\ res.val = Some(B \o "openai/deployments/" \o M \o "/" \o P \o "?api-version=" \o V)

\* an AzureAD client resolved a URI with the default version
C12_Witness ==
  /\ res.op = "generate_api_uri" /\ res.ok
  /\ Unwrap(openai_client).api_type = "AzureAD"
  /\ res.arg.model_id # None /\ res.arg.api_version = None
  /\ res.arg.api_path = "api/path"

\* C13: on an OpenAI client with base endpoint B, generate_api_uri returns
\* exactly B + "engines/" + P whatever model id and API version are given, and
\* neither of them appears in the URI.
C13_OpenAIUriShape ==
  (res.op = "generate_api_uri" /\ Unwrap(openai_client).api_type = "OpenAI") =>
    LET B == Unwrap(openai_client).api_endpoint
        P == res.arg.api_path
    IN  /\ res.ok
        /\ res.val = Some(B \o "engines/" \o P)
        /\ res.arg.model_id # None => ~Contains(res.val[1], res.arg.model_id[1])
        /\ res.arg.api_version # None => ~Contains(res.val[1], res.arg.api_version[1])

\* an OpenAI client resolved a URI while given a model id and a version
C13_Witness ==
  /\ res.op = "generate_api_uri" /\ res.ok
  /\ Unwrap(openai_client).api_type = "OpenAI"
  /\ res.arg.model_id # None /\ res.arg.api_version # None

\* the result recorded in res is the result r of generate_api_uri
SameResult(r) ==
  /\ res.ok = r.ok
  /\ res.err = r.err
  /\ r.ok => res.val = Some(r.val)

C14_State ==
  /\ IsSome(openai_client) => EndsWith(Unwrap(openai_client).api_endpoint, "/")
  /\ (res.op = "client_new" /\ ~EndsWith(res.arg.api_endpoint, "/")) =>
       openai_client =
         Some(ClientNew(res.arg.auth, res.arg.api_endpoint \o "/", res.arg.api_type))
  /\ res.op = "generate_api_uri" =>
       LET c == Unwrap(openai_client)
           e == SubSeq(c.api_endpoint, 1, Len(c.api_endpoint) - 1)
       IN  ~EndsWith(e, "/") =>
             /\ SameResult(GenerateApiUri(ClientNew(c.auth, e, c.api_type),
                                          res.arg.api_path, res.arg.model_id,
                                          res.arg.api_version))
             /\ SameResult(GenerateApiUri(ClientNew(c.auth, e \o "/", c.api_type),
                                          res.arg.api_path, res.arg.model_id,
                                          res.arg.api_version))

\* C14: for an endpoint e without trailing "/", Client::new on e and on e + "/"
\* store the same base endpoint and resolve every URI alike; the stored base
\* endpoint always ends with "/"; resolving leaves the client as constructed,
\* so repeated calls on one client return the same URI.
C14_TrailingSlashNormalized ==
  [][/\ C14_State'
     /\ res'.op = "generate_api_uri" => openai_client' = openai_client]_vars

\* a client was constructed from an endpoint without trailing slash
C14_Witness ==
  /\ res.op = "client_new"
  /\ res.arg.api_endpoint = "https://x.com/v1"
  /\ Unwrap(openai_client).api_endpoint = "https://x.com/v1/"

\* C15: a transport failure of a dispatch is never returned as success: when
\* the connection fails, the server answers with a non-2xx status, or the
\* response body cannot be read, post returns Err.
C15_TransportFailuresAreErrors ==
  (res.op = "post" /\ Len(res.sent) > 0) =>
    LET net == res.arg.net
    IN  (net.kind # "response" \/ net.status \notin 200..299) => ~res.ok

\* C17: post resolves the URI before it sends: when generate_api_uri fails
\* (gateway kind, no model id) post returns that ClientError and no request
\* is issued; every request issued goes to exactly the resolved URI.
C17_ResolveBeforeSend ==
  res.op = "post" =>
    LET a == res.arg
        resolved == GenerateApiUri(a.client, a.api_path, a.model_id, a.api_version)
    IN  /\ (a.client.api_type \in {"Azure", "AzureAD"} /\ a.model_id = None) =>
             /\ ~res.ok
             /\ res.err = Some([variant |-> "ClientError",
                                kind |-> "ModelIdMissingToGenerateApiUriForAzure"])
             /\ res.sent = <<>>
        /\ \A i \in 1..Len(res.sent) : resolved.ok /\ res.sent[i].uri = resolved.val

\* post on a gateway client without model id returned the resolution error
C17_Witness ==
  /\ res.op = "post"
  /\ res.arg.client.api_type = "Azure" /\ res.arg.model_id = None
  /\ res.arg.net.kind = "response"
  /\ ~res.ok /\ res.sent = <<>>

\* C18: no retries: a post call, and a create call through it, sends at most
\* one HTTP request whether it succeeds or fails; after a failed send the
\* call returns its error without sending again.
C18_AtMostOneRequest ==
  res.op \in {"post", "create"} =>
    /\ Len(res.sent) <= 1
    /\ (Len(res.sent) = 1 /\ res.arg.net.kind # "response") => ~res.ok

\* create returned the error of a failed send after one request
C18_Witness ==
  /\ res.op = "create" /\ ~res.ok
  /\ res.arg.net.kind = "send_error"
  /\ Len(res.sent) = 1

\* the members the serialized request must have: messages and the optional
\* fields that are set
ExpectedMembers(c) ==
  {"messages"} \cup
  {f \in {"model", "temperature", "top_p", "n", "stream", "stop", "max_tokens",
          "presence_penalty", "frequency_penalty", "logit_bias", "user",
          "function_call", "functions"} : c[f] # None}

\* C16: in every reachable ChatCompletion state the top-level members of the
\* serialized JSON are exactly messages plus the optional fields that are
\* set; an unset field is omitted, not written as null; with only messages
\* set the object has the single member messages.
C16_UnsetFieldsOmitted ==
  /\ IsSome(builder) => DOMAIN ToJson(cc) = ExpectedMembers(cc)
  /\ (res.op = "create" /\ Len(res.sent) > 0) =>
       DOMAIN res.sent[1].body = ExpectedMembers(cc)

\* create sent a request on which only messages were set
C16_Witness ==
  /\ res.op = "create" /\ Len(res.sent) = 1
  /\ DOMAIN res.sent[1].body = {"messages"}
  /\ Len(cc.messages) = 1

\* the role each append helper gives its message
HelperRole ==
  [a \in {"ChatMessageBuilder::system", "ChatMessageBuilder::assistant",
          "ChatMessageBuilder::user", "ChatMessageBuilder::function"} |->
     CASE a = "ChatMessageBuilder::system" -> "System"
       [] a = "ChatMessageBuilder::assistant" -> "Assistant"
       [] a = "ChatMessageBuilder::user" -> "User"
       [] a = "ChatMessageBuilder::function" -> "Function"]

C19_Step ==
  /\ res'.op = "ChatMessageBuilder::new" => message_builder' = Some(<<>>)
  /\ res'.op \in DOMAIN HelperRole =>
       /\ res'.ok
       /\ IsSome(message_builder) /\ IsSome(message_builder')
       /\ LET old == Unwrap(message_builder)
              new == Unwrap(message_builder')
              last == new[Len(new)]
          IN  /\ Len(new) = Len(old) + 1
              /\ SubSeq(new, 1, Len(old)) = old
              /\ last.role = HelperRole[res'.op]
              /\ last.content = res'.arg.content
              /\ IF res'.op = "ChatMessageBuilder::function"
                 THEN /\ last.function_call = <<res'.arg.function_call>>
                      /\ last.name = <<res'.arg.name>>
                 ELSE /\ last.function_call = <<>>
                      /\ last.name = <<>>
  /\ res'.op = "ChatMessageBuilder::build" =>
       /\ res'.ok
       /\ IsSome(message_builder)
       /\ res'.val = <<Unwrap(message_builder)>>

\* C19: starting from new(), each append helper (system, assistant, user,
\* function) adds exactly one message at the end of the list, with the
\* helper's role and the content passed, leaving the earlier messages as they
\* were; function messages carry the given call record and name, the other
\* roles carry neither; no append fails, empty content included; build
\* returns the list as appended.
C19_BuilderAppendsInOrder == [][C19_Step]_vars

\* build returned three messages appended through different helpers, the
\* first with empty content
C19_Witness ==
  /\ res.op = "ChatMessageBuilder::build"
  /\ Len(res.val) = 1 /\ Len(res.val[1]) = 3
  /\ res.val[1][1].role = "System" /\ res.val[1][1].content = ""
  /\ res.val[1][2].role = "Function" /\ res.val[1][2].name = <<"get_weather">>
  /\ res.val[1][3].role = "User" /\ res.val[1][3].content = "Hello"

\* what a call's URI and request must be, from its own arguments and the
\* client as constructed
OwnUri(client, t) == GenerateApiUri(client, t.api_path, t.model_id, t.api_version)

C20_CallsIndependent ==
  \A i \in DOMAIN tasks :
    LET t == tasks[i]
        client == Unwrap(openai_client)
    IN  /\ t.api_uri # None =>
             OwnUri(client, t).ok /\ t.api_uri = <<OwnUri(client, t).val>>
        /\ (t.pc = "done" /\ t.api_uri = None /\ t.request = <<>>) => ~OwnUri(client, t).ok
        /\ t.request # <<>> =>
             /\ t.request[1].uri = OwnUri(client, t).val
             /\ t.request[1].body = Unwrap(t.body)
             /\ t.request[1].headers =
                  <<Header("content-type", "application/json")>> \o AuthHeaders(client)
        /\ \A j \in DOMAIN tasks :
             (tasks[j].api_path = t.api_path /\ tasks[j].model_id = t.model_id
              /\ tasks[j].api_version = t.api_version) =>
               /\ (t.api_uri # None /\ tasks[j].api_uri # None) =>
                    t.api_uri = tasks[j].api_uri
               /\ (t.request # <<>> /\ tasks[j].request # <<>>) =>
                    /\ t.request[1].uri = tasks[j].request[1].uri
                    /\ t.request[1].headers = tasks[j].request[1].headers

\* C20: under every interleaving of the steps of concurrent generate_api_uri
\* and post calls on one Client, no step changes the client's endpoint, kind
\* or secret once it is constructed, and each call's URI, headers and body
\* are those given by its own arguments and the client as constructed,
\* whatever the other calls do.
C20_SharedClientReadOnly ==
  [][/\ openai_client # None => openai_client' = openai_client
     /\ C20_CallsIndependent']_vars

\* two post calls with different arguments in flight at once: one waits for
\* its response body, the other has its request built
C20_Witness ==
  /\ Len(tasks) = 2
  /\ tasks[1].call = "post" /\ tasks[2].call = "post"
  /\ tasks[1].pc = "sent" /\ tasks[2].pc = "built"
  /\ tasks[1].body # tasks[2].body
  /\ tasks[1].model_id # tasks[2].model_id

\* the fields of the request
RequestFields ==
  {"model", "messages", "temperature", "top_p", "n", "stream", "stop", "max_tokens",
   "presence_penalty", "frequency_penalty", "logit_bias", "user", "function_call",
   "functions"}

\* the setters, each named as the field it sets
SetterNames == RequestFields \ {"model", "messages"}

\* new is old except possibly in field f
SameExcept(old, new, f) == \A g \in RequestFields \ {f} : new[g] = old[g]

C21_Step ==
  /\ (res'.op \in SetterNames /\ res'.ok) =>
       /\ IsSome(builder) /\ IsSome(builder')
       /\ SameExcept(cc, cc', res'.op)
  /\ (res'.op \in {"message", "messages"} /\ res'.ok) =>
       /\ IsSome(builder) /\ IsSome(builder')
       /\ SameExcept(cc, cc', "messages")
  /\ res'.op = "create" =>
       /\ IsSome(builder) /\ IsSome(builder')
       /\ SameExcept(cc, cc', "model")
       /\ (~res'.ok /\ res'.err[1].variant = "EmptyMessages") => builder' = builder

\* C21: every successful setter (temperature, top_p, n, stream, stop,
\* max_tokens, presence_penalty, frequency_penalty, logit_bias, user,
\* function_call, functions) leaves the message list and every field other
\* than its own unchanged; message and messages change only the message list;
\* create changes no field other than model, and nothing at all when it fails
\* with EmptyMessages.
C21_SettersChangeOnlyTheirField == [][C21_Step]_vars

\* a request with every optional field set and a message, which create has
\* stamped with the model
C21_Witness ==
  /\ res.op = "create" /\ res.ok
  /\ IsSome(builder)
  /\ \A f \in RequestFields \ {"messages"} : cc[f] # None
  /\ Len(cc.messages) = 1

====
